---- MODULE Spec2Model ----
(***************************************************************************)
(* Herpaderp::ExecuteProcess (source/ProcessHerpaderping/herpaderp.cpp)    *)
(* as a state machine: one step per operating-system or Utils call of the  *)
(* pipeline, each with its success and its failure outcome, and the scope  *)
(* exit of the function (the terminateProcess guard and the unique_handle  *)
(* destructors) folded into every returning step.                          *)
(***************************************************************************)
EXTENDS Integers, Sequences, FiniteSets, TLC

(* ------------------------------------------------------------------ *)
(* Bounds of the model                                                 *)
(* ------------------------------------------------------------------ *)
MaxLen == 2
MaxPatLen == 2

Byte == {0, 1}

Files(lo, hi) == UNION {[1..n -> Byte] : n \in lo..hi}

(* ------------------------------------------------------------------ *)
(* HRESULT / NTSTATUS / Win32 error values, as signed 32-bit integers  *)
(* ------------------------------------------------------------------ *)
S_OK == 0
ERROR_USER_MAPPED_FILE == 1224
ERROR_ASSERTION_FAILURE == 668
STILL_ACTIVE == 259

FAILED(h) == h < 0
NT_SUCCESS(s) == s >= 0

\* HRESULT_FROM_WIN32: FACILITY_WIN32 (7) and the severity bit over the low word.
HRESULT_FROM_WIN32(x) == IF x <= 0 THEN x ELSE (((x % 65536) + 458752) - 2147483647) - 1

\* HRESULT_FROM_NT: the status with FACILITY_NT_BIT (0x10000000) set.
HRESULT_FROM_NT(s) == IF (s \div 268435456) % 2 = 0 THEN s + 268435456 ELSE s

\* The last error turned into an HRESULT as it is: 0 comes back as success.
LastErrorHrUnchecked(err) == HRESULT_FROM_WIN32(err)

\* RETURN_LAST_ERROR never returns success: a last error of 0 is reported
\* as ERROR_ASSERTION_FAILURE.
LastErrorHr(err) == HRESULT_FROM_WIN32(IF err = 0 THEN ERROR_ASSERTION_FAILURE ELSE err)

\* RETURN_NTSTATUS of a failed status.
NtStatusHr(s) == IF NT_SUCCESS(s) THEN S_OK ELSE HRESULT_FROM_NT(s)

\* Last-error values a failing Win32 call may leave: access denied, or none
\* at all.
Win32Errors == {0, 5}

\* Failures of the Utils calls: E_FAIL and E_ACCESSDENIED for the copies and
\* the header parse; E_FAIL and the user-mapped-file code for the calls whose
\* failure is returned as it is; E_FAIL for the two fix-up steps, whose
\* failure is only logged.
IoFailures == {-2147467259, HRESULT_FROM_WIN32(5)}
AnyFailures == {-2147467259, HRESULT_FROM_WIN32(ERROR_USER_MAPPED_FILE)}
FixupFailures == {-2147467259}

\* STATUS_ACCESS_DENIED, STATUS_INVALID_IMAGE_FORMAT
NtFailures == {-1073741790, -1073741701}

\* The address the kernel maps an image at: the preferred base its headers
\* name, here a page-aligned address taken from the image's last byte.
ImageBaseOf(image) == IF Len(image) = 0 THEN 4096 ELSE 4096 * (image[Len(image)] + 1)

\* Codes the target process may exit with.
ExitCodes == {0, 3}

(* ------------------------------------------------------------------ *)
(* File primitives                                                     *)
(* ------------------------------------------------------------------ *)
Max(a, b) == IF a >= b THEN a ELSE b

\* WriteFile at byte offset off (0-based): overwrites in place and grows the
\* file when the data reaches past its end.
WriteAt(file, off, data) ==
    [i \in 1..Max(Len(file), off + Len(data)) |->
        IF i > off /\ i <= off + Len(data) THEN data[i - off] ELSE file[i]]

\* The fill pattern repeated and cut to n bytes.
Tile(pat, n) == [i \in 1..n |-> pat[((i - 1) % Len(pat)) + 1]]

\* Utils::CopyFileByHandle, all writes succeeding: the source's bytes are
\* written from offset 0 and the end of file is set to the source's length.
\* Shrinking a file that backs a live image mapping is refused with
\* ERROR_USER_MAPPED_FILE, the written bytes staying in place.
CopyFileByHandle(src, dst, mapped) ==
    LET written == WriteAt(dst, 0, src) IN
    IF mapped /\ Len(src) < Len(dst)
    THEN [hr |-> HRESULT_FROM_WIN32(ERROR_USER_MAPPED_FILE), bytes |-> written]
    ELSE [hr |-> S_OK, bytes |-> SubSeq(written, 1, Len(src))]

\* Utils::CopyFileByHandle stopped by an I/O error e after k bytes.
CopyFileByHandleFailing(src, dst, k, e) ==
    [hr |-> e, bytes |-> WriteAt(dst, 0, SubSeq(src, 1, k))]

\* Utils::GetFileSize
GetFileSize(file) == Len(file)

\* Utils::OverwriteFileAfterWithPattern: the bytes from offset to the end of
\* the file are overwritten with the pattern; bytesWritten is their number.
OverwriteFileAfterWithPattern(file, offset, pat) ==
    LET n == IF Len(file) > offset THEN Len(file) - offset ELSE 0 IN
    [bytes |-> WriteAt(file, offset, Tile(pat, n)), bytesWritten |-> n]

\* Utils::OverwriteFileContentsWithPattern: the whole file, same length.
OverwriteFileContentsWithPattern(file, pat) == Tile(pat, Len(file))

\* Utils::GetImageEntryPointRva: the AddressOfEntryPoint field of the file's
\* headers, here the file's first byte.
GetImageEntryPointRva(file) == IF Len(file) = 0 THEN 0 ELSE file[1] + 1

\* Add2Ptr
Add2Ptr(base, off) == base + off

(* ------------------------------------------------------------------ *)
(* State                                                               *)
(* ------------------------------------------------------------------ *)
VARIABLES
    TargetBinary,        \* bytes of the source binary
    ReplaceWith,         \* [has: BOOLEAN, bytes: file]
    Pattern,             \* fill pattern
    WaitForProcess,
    HoldHandleExclusive,
    pc,                  \* next statement of ExecuteProcess
    handles,             \* the wil::unique_handle locals
    guardArmed,          \* terminateProcess scope_exit not released
    hr,
    status,
    ret,                 \* value ExecuteProcess returned (meaningful at pc = "done")
    targetFile,          \* bytes of the target file on disk
    secDirExt,           \* bytes the security directory was extended by
    sectionImage,        \* image captured by NtCreateSection
    process,             \* the target process object
    imageEntryPointRva,
    replaceWithSize,
    bytesWritten,
    pebImageBase,        \* peb.ImageBaseAddress as read
    targetExitCode,
    terminateCalls,      \* process states TerminateProcess was invoked in
    writes,              \* Content Substituter writes so far
    trace                \* stages attempted so far, with their outcome

inputs == <<TargetBinary, ReplaceWith, Pattern, WaitForProcess, HoldHandleExclusive>>
locals == <<hr, status, imageEntryPointRva, replaceWithSize, bytesWritten, pebImageBase,
            targetExitCode>>
vars == <<inputs, locals, pc, handles, guardArmed, ret, targetFile, secDirExt,
          sectionImage, process, terminateCalls, writes, trace>>

HandleNames == {"source", "target", "section", "process", "replaceWith", "thread"}

NoProcess ==
    [state |-> "none", image |-> <<>>, imageBase |-> 0, params |-> FALSE,
     threadStart |-> 0, exitCode |-> STILL_ACTIVE]

Init ==
    /\ TargetBinary \in Files(1, MaxLen)
    /\ ReplaceWith \in {[has |-> FALSE, bytes |-> <<>>]}
                       \cup {[has |-> TRUE, bytes |-> b] : b \in Files(0, MaxLen)}
    /\ Pattern \in Files(1, MaxPatLen)
    /\ WaitForProcess \in BOOLEAN
    /\ HoldHandleExclusive \in BOOLEAN
    /\ pc = "OpenSource"
    /\ handles = [n \in HandleNames |-> "null"]
    /\ guardArmed = TRUE
    /\ hr = S_OK
    /\ status = 0
    /\ ret = S_OK
    /\ targetFile = <<>>
    /\ secDirExt = 0
    /\ sectionImage = <<>>
    /\ process = NoProcess
    /\ imageEntryPointRva = 0
    /\ replaceWithSize = 0
    /\ bytesWritten = 0
    /\ pebImageBase = 0
    /\ targetExitCode = 0
    /\ terminateCalls = <<>>
    /\ writes = <<>>
    /\ trace = <<>>

(* ------------------------------------------------------------------ *)
(* Scope exit                                                          *)
(* ------------------------------------------------------------------ *)
IsValid(n) == handles[n] = "open"

Live(p) == p.state \in {"created", "running"}

\* TerminateProcess(processHandle.get(), 0)
TerminateProcess(p) ==
    IF Live(p) THEN [p EXCEPT !.state = "terminated", !.exitCode = 0] ELSE p

CloseAll == [n \in HandleNames |-> IF handles[n] = "open" THEN "closed" ELSE handles[n]]

\* One more stage attempted: its name, whether it succeeded, and the HRESULT
\* its outcome stands for.
Step(stage, ok, code) ==
    trace' = Append(trace, [stage |-> stage, ok |-> ok, code |-> code])

\* The handle is closed before the guard's lambda looks at it.
ReturnHandleClosedFirst(rv) ==
    /\ pc' = "done"
    /\ ret' = rv
    /\ guardArmed' = FALSE
    /\ terminateCalls' = terminateCalls
    /\ process' = process
    /\ handles' = CloseAll

\* A return statement: the locals are destroyed in reverse order of
\* declaration, so the terminateProcess guard runs while processHandle is
\* still open, and processHandle is closed last.
Return(rv) ==
    /\ pc' = "done"
    /\ ret' = rv
    /\ guardArmed' = FALSE
    /\ IF guardArmed /\ IsValid("process")
       THEN /\ terminateCalls' = Append(terminateCalls, process.state)
            /\ process' = TerminateProcess(process)
       ELSE /\ terminateCalls' = terminateCalls
            /\ process' = process
    /\ handles' = CloseAll

Open(n) == handles' = [handles EXCEPT ![n] = "open"]
Close(n) == handles' = [handles EXCEPT ![n] = IF @ = "open" THEN "closed" ELSE @]

Wrote(op) == writes' = Append(writes, [op |-> op, proc |-> process.state])

(* ------------------------------------------------------------------ *)
(* Files prepared: lines 39-97                                         *)
(* ------------------------------------------------------------------ *)
OpenSourceOk ==
    /\ pc = "OpenSource"
    /\ Open("source")
    /\ pc' = "CreateTarget"
    /\ UNCHANGED <<inputs, locals, guardArmed, ret, targetFile, secDirExt, sectionImage,
                   process, terminateCalls, writes>>
    /\ Step("OpenSource", TRUE, S_OK)

OpenSourceFail ==
    /\ pc = "OpenSource"
    /\ \E err \in Win32Errors : Return(LastErrorHr(err))
    /\ UNCHANGED <<inputs, locals, targetFile, secDirExt, sectionImage, writes>>
    /\ Step("OpenSource", FALSE, ret')

\* CREATE_ALWAYS leaves an empty file.
CreateTargetOk ==
    /\ pc = "CreateTarget"
    /\ Open("target")
    /\ targetFile' = <<>>
    /\ pc' = "CopySource"
    /\ UNCHANGED <<inputs, locals, guardArmed, ret, secDirExt, sectionImage, process,
                   terminateCalls, writes>>
    /\ Step("CreateTarget", TRUE, S_OK)

\* The failed create tried again in place of the return.
CreateTargetFailRetried ==
    /\ pc = "CreateTarget"
    /\ pc' = "CreateTarget"
    /\ \E err \in Win32Errors : hr' = LastErrorHr(err)
    /\ UNCHANGED <<inputs, status, imageEntryPointRva, replaceWithSize, bytesWritten,
                   pebImageBase, targetExitCode, handles, guardArmed, ret, targetFile,
                   secDirExt, sectionImage, process, terminateCalls, writes>>
    /\ Step("CreateTarget", FALSE, hr')

CreateTargetFail ==
    /\ pc = "CreateTarget"
    /\ \E err \in Win32Errors : Return(LastErrorHr(err))
    /\ UNCHANGED <<inputs, locals, targetFile, secDirExt, sectionImage, writes>>
    /\ Step("CreateTarget", FALSE, ret')

\* The pattern overwrite done right after the copy, before the section exists.
CopySourceOkThenOverwrite ==
    /\ pc = "CopySource"
    /\ LET r == CopyFileByHandle(TargetBinary, targetFile, FALSE) IN
        /\ ~FAILED(r.hr)
        /\ hr' = r.hr
        /\ targetFile' = OverwriteFileContentsWithPattern(r.bytes, Pattern)
    /\ pc' = "ResetSource"
    /\ UNCHANGED <<inputs, status, imageEntryPointRva, replaceWithSize, bytesWritten,
                   pebImageBase, targetExitCode, handles, guardArmed, ret, secDirExt,
                   sectionImage, process, terminateCalls, writes>>
    /\ Step("CopySource", TRUE, hr')

CopySourceOk ==
    /\ pc = "CopySource"
    /\ LET r == CopyFileByHandle(TargetBinary, targetFile, FALSE) IN
        /\ ~FAILED(r.hr)
        /\ hr' = r.hr
        /\ targetFile' = r.bytes
    /\ pc' = "ResetSource"
    /\ UNCHANGED <<inputs, status, imageEntryPointRva, replaceWithSize, bytesWritten,
                   pebImageBase, targetExitCode, handles, guardArmed, ret, secDirExt,
                   sectionImage, process, terminateCalls, writes>>
    /\ Step("CopySource", TRUE, hr')

\* The failed copy only logged: the missing RETURN_HR.
CopySourceFailIgnored ==
    /\ pc = "CopySource"
    /\ \E e \in IoFailures, k \in 0..Len(TargetBinary) :
        LET r == CopyFileByHandleFailing(TargetBinary, targetFile, k, e) IN
        /\ FAILED(r.hr)
        /\ hr' = r.hr
        /\ targetFile' = r.bytes
    /\ pc' = "ResetSource"
    /\ UNCHANGED <<inputs, status, imageEntryPointRva, replaceWithSize, bytesWritten,
                   pebImageBase, targetExitCode, handles, guardArmed, ret, secDirExt,
                   sectionImage, process, terminateCalls, writes>>
    /\ Step("CopySource", FALSE, hr')

CopySourceFail ==
    /\ pc = "CopySource"
    /\ \E e \in IoFailures, k \in 0..Len(TargetBinary) :
        LET r == CopyFileByHandleFailing(TargetBinary, targetFile, k, e) IN
        /\ FAILED(r.hr)
        /\ hr' = r.hr
        /\ targetFile' = r.bytes
        /\ Return(r.hr)
    /\ UNCHANGED <<inputs, status, imageEntryPointRva, replaceWithSize, bytesWritten,
                   pebImageBase, targetExitCode, secDirExt, sectionImage, writes>>
    /\ Step("CopySource", FALSE, hr')

\* sourceHandle.reset()
ResetSource ==
    /\ pc = "ResetSource"
    /\ Close("source")
    /\ pc' = "NtCreateSection"
    /\ UNCHANGED <<inputs, locals, guardArmed, ret, targetFile, secDirExt, sectionImage,
                   process, terminateCalls, writes, trace>>

(* ------------------------------------------------------------------ *)
(* Image mapped, process constructed: lines 102-160                    *)
(* ------------------------------------------------------------------ *)
\* The section captures the target file's bytes as they are now.
NtCreateSectionOk ==
    /\ pc = "NtCreateSection"
    /\ status' = 0
    /\ sectionImage' = targetFile
    /\ Open("section")
    /\ pc' = "NtCreateProcessEx"
    /\ UNCHANGED <<inputs, hr, imageEntryPointRva, replaceWithSize, bytesWritten,
                   pebImageBase, targetExitCode, guardArmed, ret, targetFile, secDirExt,
                   process, terminateCalls, writes>>
    /\ Step("NtCreateSection", TRUE, S_OK)

NtCreateSectionFail ==
    /\ pc = "NtCreateSection"
    /\ \E s \in NtFailures :
        /\ ~NT_SUCCESS(s)
        /\ status' = s
        /\ Return(NtStatusHr(s))
    /\ UNCHANGED <<inputs, hr, imageEntryPointRva, replaceWithSize, bytesWritten,
                   pebImageBase, targetExitCode, targetFile, secDirExt, sectionImage,
                   writes>>
    /\ Step("NtCreateSection", FALSE, NtStatusHr(status'))

\* The process maps the section's image; it has no thread yet.
NtCreateProcessExOk ==
    /\ pc = "NtCreateProcessEx"
    /\ status' = 0
    /\ process' = [NoProcess EXCEPT !.state = "created", !.image = sectionImage,
                                    !.imageBase = ImageBaseOf(sectionImage)]
    /\ Open("process")
    /\ pc' = "ResetSection"
    /\ UNCHANGED <<inputs, hr, imageEntryPointRva, replaceWithSize, bytesWritten,
                   pebImageBase, targetExitCode, guardArmed, ret, targetFile, secDirExt,
                   sectionImage, terminateCalls, writes>>
    /\ Step("NtCreateProcessEx", TRUE, S_OK)

\* The failed process creation only logged: the missing RETURN_NTSTATUS.
NtCreateProcessExFailIgnored ==
    /\ pc = "NtCreateProcessEx"
    /\ \E s \in NtFailures :
        /\ ~NT_SUCCESS(s)
        /\ status' = s
    /\ pc' = "ResetSection"
    /\ UNCHANGED <<inputs, hr, imageEntryPointRva, replaceWithSize, bytesWritten,
                   pebImageBase, targetExitCode, handles, guardArmed, ret, targetFile,
                   secDirExt, sectionImage, process, terminateCalls, writes>>
    /\ Step("NtCreateProcessEx", FALSE, NtStatusHr(status'))

NtCreateProcessExFail ==
    /\ pc = "NtCreateProcessEx"
    /\ \E s \in NtFailures :
        /\ ~NT_SUCCESS(s)
        /\ status' = s
        /\ Return(NtStatusHr(s))
    /\ UNCHANGED <<inputs, hr, imageEntryPointRva, replaceWithSize, bytesWritten,
                   pebImageBase, targetExitCode, targetFile, secDirExt, sectionImage,
                   writes>>
    /\ Step("NtCreateProcessEx", FALSE, NtStatusHr(status'))

\* The section handle left to the end of the function.
ResetSectionSkipped ==
    /\ pc = "ResetSection"
    /\ pc' = "GetImageEntryPointRva"
    /\ UNCHANGED <<inputs, locals, handles, guardArmed, ret, targetFile, secDirExt,
                   sectionImage, process, terminateCalls, writes, trace>>

\* sectionHandle.reset()
ResetSection ==
    /\ pc = "ResetSection"
    /\ Close("section")
    /\ pc' = "GetImageEntryPointRva"
    /\ UNCHANGED <<inputs, locals, guardArmed, ret, targetFile, secDirExt, sectionImage,
                   process, terminateCalls, writes, trace>>

GetImageEntryPointRvaOk ==
    /\ pc = "GetImageEntryPointRva"
    /\ hr' = S_OK
    /\ imageEntryPointRva' = GetImageEntryPointRva(targetFile)
    /\ pc' = IF ReplaceWith.has THEN "OpenReplaceWith"
             ELSE "OverwriteFileContentsWithPattern"
    /\ UNCHANGED <<inputs, status, replaceWithSize, bytesWritten, pebImageBase,
                   targetExitCode, handles, guardArmed, ret, targetFile, secDirExt,
                   sectionImage, process, terminateCalls, writes>>
    /\ Step("GetImageEntryPointRva", TRUE, S_OK)

GetImageEntryPointRvaFail ==
    /\ pc = "GetImageEntryPointRva"
    /\ \E e \in IoFailures :
        /\ FAILED(e)
        /\ hr' = e
        /\ Return(e)
    /\ UNCHANGED <<inputs, status, imageEntryPointRva, replaceWithSize, bytesWritten,
                   pebImageBase, targetExitCode, targetFile, secDirExt, sectionImage,
                   writes>>
    /\ Step("GetImageEntryPointRva", FALSE, hr')

(* ------------------------------------------------------------------ *)
(* Content substitution: lines 167-269                                 *)
(* ------------------------------------------------------------------ *)
UserMappedFile == HRESULT_FROM_WIN32(ERROR_USER_MAPPED_FILE)

OpenReplaceWithOk ==
    /\ pc = "OpenReplaceWith"
    /\ Open("replaceWith")
    /\ pc' = "CopyReplaceWith"
    /\ UNCHANGED <<inputs, locals, guardArmed, ret, targetFile, secDirExt, sectionImage,
                   process, terminateCalls, writes>>
    /\ Step("OpenReplaceWith", TRUE, S_OK)

OpenReplaceWithFail ==
    /\ pc = "OpenReplaceWith"
    /\ \E err \in Win32Errors : Return(LastErrorHr(err))
    /\ UNCHANGED <<inputs, locals, targetFile, secDirExt, sectionImage, writes>>
    /\ Step("OpenReplaceWith", FALSE, ret')

\* What CopyFileByHandle(replaceWithHandle, targetHandle) can come back with.
ReplaceOutcomes ==
    {CopyFileByHandle(ReplaceWith.bytes, targetFile, Live(process))}
    \cup {CopyFileByHandleFailing(ReplaceWith.bytes, targetFile, k, e) :
             k \in 0..Len(ReplaceWith.bytes), e \in IoFailures}

\* The copy reported as done with nothing written to the target.
CopyReplaceWithOkUnwritten ==
    /\ pc = "CopyReplaceWith"
    /\ \E r \in ReplaceOutcomes :
        /\ ~FAILED(r.hr)
        /\ hr' = r.hr
    /\ Close("replaceWith")
    /\ pc' = "NtQueryInformationProcess"
    /\ UNCHANGED <<inputs, status, imageEntryPointRva, replaceWithSize, bytesWritten,
                   pebImageBase, targetExitCode, guardArmed, ret, secDirExt,
                   sectionImage, process, terminateCalls, targetFile, writes>>
    /\ Step("CopyReplaceWith", TRUE, S_OK)

\* The copy succeeded: the replace-with block ends, replaceWithHandle closes.
CopyReplaceWithOk ==
    /\ pc = "CopyReplaceWith"
    /\ \E r \in ReplaceOutcomes :
        /\ ~FAILED(r.hr)
        /\ hr' = r.hr
        /\ targetFile' = r.bytes
    /\ Wrote("CopyReplaceWith")
    /\ Close("replaceWith")
    /\ pc' = "NtQueryInformationProcess"
    /\ UNCHANGED <<inputs, status, imageEntryPointRva, replaceWithSize, bytesWritten,
                   pebImageBase, targetExitCode, guardArmed, ret, secDirExt,
                   sectionImage, process, terminateCalls>>
    /\ Step("CopyReplaceWith", TRUE, S_OK)

\* The missing test of the error code: every failure is taken for the race.
CopyReplaceWithFatalAsRace ==
    /\ pc = "CopyReplaceWith"
    /\ \E r \in ReplaceOutcomes :
        /\ FAILED(r.hr)
        /\ r.hr # UserMappedFile
        /\ hr' = r.hr
        /\ targetFile' = r.bytes
    /\ Wrote("CopyReplaceWith")
    /\ pc' = "GetFileSize"
    /\ UNCHANGED <<inputs, status, imageEntryPointRva, replaceWithSize, bytesWritten,
                   pebImageBase, targetExitCode, handles, guardArmed, ret, secDirExt,
                   sectionImage, process, terminateCalls>>
    /\ Step("CopyReplaceWith", FALSE, hr')

\* FAILED(hr) and hr != HRESULT_FROM_WIN32(ERROR_USER_MAPPED_FILE): fatal.
CopyReplaceWithFatal ==
    /\ pc = "CopyReplaceWith"
    /\ \E r \in ReplaceOutcomes :
        /\ FAILED(r.hr)
        /\ r.hr # UserMappedFile
        /\ hr' = r.hr
        /\ targetFile' = r.bytes
        /\ Return(r.hr)
    /\ Wrote("CopyReplaceWith")
    /\ UNCHANGED <<inputs, status, imageEntryPointRva, replaceWithSize, bytesWritten,
                   pebImageBase, targetExitCode, secDirExt, sectionImage>>
    /\ Step("CopyReplaceWith", FALSE, hr')

\* FAILED(hr) with ERROR_USER_MAPPED_FILE: on to the fix-up.
CopyReplaceWithUserMapped ==
    /\ pc = "CopyReplaceWith"
    /\ \E r \in ReplaceOutcomes :
        /\ FAILED(r.hr)
        /\ r.hr = UserMappedFile
        /\ hr' = r.hr
        /\ targetFile' = r.bytes
    /\ Wrote("CopyReplaceWith")
    /\ pc' = "GetFileSize"
    /\ UNCHANGED <<inputs, status, imageEntryPointRva, replaceWithSize, bytesWritten,
                   pebImageBase, targetExitCode, handles, guardArmed, ret, secDirExt,
                   sectionImage, process, terminateCalls>>
    /\ Step("CopyReplaceWith", FALSE, hr')

\* The size asked of the wrong handle: the target's, not the replacement's.
GetFileSizeOkOfTarget ==
    /\ pc = "GetFileSize"
    /\ hr' = S_OK
    /\ replaceWithSize' = GetFileSize(targetFile)
    /\ pc' = "OverwriteFileAfterWithPattern"
    /\ UNCHANGED <<inputs, status, imageEntryPointRva, bytesWritten, pebImageBase,
                   targetExitCode, handles, guardArmed, ret, targetFile, secDirExt,
                   sectionImage, process, terminateCalls, writes>>
    /\ Step("GetFileSize", TRUE, S_OK)

GetFileSizeOk ==
    /\ pc = "GetFileSize"
    /\ hr' = S_OK
    /\ replaceWithSize' = GetFileSize(ReplaceWith.bytes)
    /\ pc' = "OverwriteFileAfterWithPattern"
    /\ UNCHANGED <<inputs, status, imageEntryPointRva, bytesWritten, pebImageBase,
                   targetExitCode, handles, guardArmed, ret, targetFile, secDirExt,
                   sectionImage, process, terminateCalls, writes>>
    /\ Step("GetFileSize", TRUE, S_OK)

\* Taken for non-fatal like the two fix-up steps after it.
GetFileSizeFailIgnored ==
    /\ pc = "GetFileSize"
    /\ \E e \in AnyFailures :
        /\ FAILED(e)
        /\ hr' = e
    /\ Close("replaceWith")
    /\ pc' = "NtQueryInformationProcess"
    /\ UNCHANGED <<inputs, status, imageEntryPointRva, replaceWithSize, bytesWritten,
                   pebImageBase, targetExitCode, guardArmed, ret, targetFile, secDirExt,
                   sectionImage, process, terminateCalls, writes>>
    /\ Step("GetFileSize", FALSE, hr')

\* Lines 223-229: RETURN_HR(hr).
GetFileSizeFail ==
    /\ pc = "GetFileSize"
    /\ \E e \in AnyFailures :
        /\ FAILED(e)
        /\ hr' = e
        /\ Return(e)
    /\ UNCHANGED <<inputs, status, imageEntryPointRva, replaceWithSize, bytesWritten,
                   pebImageBase, targetExitCode, targetFile, secDirExt, sectionImage,
                   writes>>
    /\ Step("GetFileSize", FALSE, hr')

OverwriteFileAfterWithPatternOk ==
    /\ pc = "OverwriteFileAfterWithPattern"
    /\ Wrote("OverwriteFileAfterWithPattern")
    /\ LET r == OverwriteFileAfterWithPattern(targetFile, replaceWithSize, Pattern) IN
        /\ hr' = S_OK
        /\ targetFile' = r.bytes
        /\ bytesWritten' = r.bytesWritten
    /\ pc' = "ExtendFileSecurityDirectory"
    /\ UNCHANGED <<inputs, status, imageEntryPointRva, replaceWithSize, pebImageBase,
                   targetExitCode, handles, guardArmed, ret, secDirExt, sectionImage,
                   process, terminateCalls>>
    /\ Step("OverwriteFileAfterWithPattern", TRUE, S_OK)

\* A failed tail overwrite treated like a failed full overwrite.
OverwriteFileAfterWithPatternFailFatal ==
    /\ pc = "OverwriteFileAfterWithPattern"
    /\ Wrote("OverwriteFileAfterWithPattern")
    /\ \E e \in FixupFailures :
        \E k \in 0..OverwriteFileAfterWithPattern(targetFile, replaceWithSize,
                                                  Pattern).bytesWritten :
            /\ FAILED(e)
            /\ hr' = e
            /\ targetFile' = WriteAt(targetFile, replaceWithSize, Tile(Pattern, k))
            /\ bytesWritten' = k
            /\ Return(e)
    /\ UNCHANGED <<inputs, status, imageEntryPointRva, replaceWithSize, pebImageBase,
                   targetExitCode, secDirExt, sectionImage>>
    /\ Step("OverwriteFileAfterWithPattern", FALSE, hr')

\* Lines 236-241: a warning; the block ends and replaceWithHandle closes.
OverwriteFileAfterWithPatternFail ==
    /\ pc = "OverwriteFileAfterWithPattern"
    /\ Wrote("OverwriteFileAfterWithPattern")
    /\ \E e \in FixupFailures :
        \E k \in 0..OverwriteFileAfterWithPattern(targetFile, replaceWithSize,
                                                  Pattern).bytesWritten :
            /\ FAILED(e)
            /\ hr' = e
            /\ targetFile' = WriteAt(targetFile, replaceWithSize, Tile(Pattern, k))
            /\ bytesWritten' = k
    /\ Close("replaceWith")
    /\ pc' = "NtQueryInformationProcess"
    /\ UNCHANGED <<inputs, status, imageEntryPointRva, replaceWithSize, pebImageBase,
                   targetExitCode, guardArmed, ret, secDirExt, sectionImage, process,
                   terminateCalls>>
    /\ Step("OverwriteFileAfterWithPattern", FALSE, hr')

ExtendFileSecurityDirectoryOk ==
    /\ pc = "ExtendFileSecurityDirectory"
    /\ Wrote("ExtendFileSecurityDirectory")
    /\ hr' = S_OK
    /\ secDirExt' = secDirExt + bytesWritten
    /\ Close("replaceWith")
    /\ pc' = "NtQueryInformationProcess"
    /\ UNCHANGED <<inputs, status, imageEntryPointRva, replaceWithSize, bytesWritten,
                   pebImageBase, targetExitCode, guardArmed, ret, targetFile,
                   sectionImage, process, terminateCalls>>
    /\ Step("ExtendFileSecurityDirectory", TRUE, S_OK)

\* Lines 246-251: a warning.
ExtendFileSecurityDirectoryFail ==
    /\ pc = "ExtendFileSecurityDirectory"
    /\ Wrote("ExtendFileSecurityDirectory")
    /\ \E e \in FixupFailures :
        /\ FAILED(e)
        /\ hr' = e
    /\ Close("replaceWith")
    /\ pc' = "NtQueryInformationProcess"
    /\ UNCHANGED <<inputs, status, imageEntryPointRva, replaceWithSize, bytesWritten,
                   pebImageBase, targetExitCode, guardArmed, ret, targetFile, secDirExt,
                   sectionImage, process, terminateCalls>>
    /\ Step("ExtendFileSecurityDirectory", FALSE, hr')

OverwriteFileContentsWithPatternOk ==
    /\ pc = "OverwriteFileContentsWithPattern"
    /\ Wrote("OverwriteFileContentsWithPattern")
    /\ hr' = S_OK
    /\ targetFile' = OverwriteFileContentsWithPattern(targetFile, Pattern)
    /\ pc' = "NtQueryInformationProcess"
    /\ UNCHANGED <<inputs, status, imageEntryPointRva, replaceWithSize, bytesWritten,
                   pebImageBase, targetExitCode, handles, guardArmed, ret, secDirExt,
                   sectionImage, process, terminateCalls>>
    /\ Step("OverwriteFileContentsWithPattern", TRUE, S_OK)

\* A failed full overwrite only logged, like the fix-up steps.
OverwriteFileContentsWithPatternFailIgnored ==
    /\ pc = "OverwriteFileContentsWithPattern"
    /\ Wrote("OverwriteFileContentsWithPattern")
    /\ \E e \in AnyFailures, k \in 0..Len(targetFile) :
        /\ FAILED(e)
        /\ hr' = e
        /\ targetFile' = WriteAt(targetFile, 0, Tile(Pattern, k))
    /\ pc' = "NtQueryInformationProcess"
    /\ UNCHANGED <<inputs, status, imageEntryPointRva, replaceWithSize, bytesWritten,
                   pebImageBase, targetExitCode, handles, guardArmed, ret, secDirExt,
                   sectionImage, process, terminateCalls>>
    /\ Step("OverwriteFileContentsWithPattern", FALSE, hr')

\* Lines 264-268: RETURN_HR(hr).
OverwriteFileContentsWithPatternFail ==
    /\ pc = "OverwriteFileContentsWithPattern"
    /\ Wrote("OverwriteFileContentsWithPattern")
    /\ \E e \in AnyFailures, k \in 0..Len(targetFile) :
        /\ FAILED(e)
        /\ hr' = e
        /\ targetFile' = WriteAt(targetFile, 0, Tile(Pattern, k))
        /\ Return(e)
    /\ UNCHANGED <<inputs, status, imageEntryPointRva, replaceWithSize, bytesWritten,
                   pebImageBase, targetExitCode, secDirExt, sectionImage>>
    /\ Step("OverwriteFileContentsWithPattern", FALSE, hr')

(* ------------------------------------------------------------------ *)
(* Bootstrap: lines 277-356                                            *)
(* ------------------------------------------------------------------ *)
NtQueryInformationProcessOk ==
    /\ pc = "NtQueryInformationProcess"
    /\ status' = 0
    /\ pc' = "ReadProcessMemory"
    /\ UNCHANGED <<inputs, hr, imageEntryPointRva, replaceWithSize, bytesWritten,
                   pebImageBase, targetExitCode, handles, guardArmed, ret, targetFile,
                   secDirExt, sectionImage, process, terminateCalls, writes>>
    /\ Step("NtQueryInformationProcess", TRUE, S_OK)

NtQueryInformationProcessFail ==
    /\ pc = "NtQueryInformationProcess"
    /\ \E s \in NtFailures :
        /\ ~NT_SUCCESS(s)
        /\ status' = s
        /\ Return(NtStatusHr(s))
    /\ UNCHANGED <<inputs, hr, imageEntryPointRva, replaceWithSize, bytesWritten,
                   pebImageBase, targetExitCode, targetFile, secDirExt, sectionImage,
                   writes>>
    /\ Step("NtQueryInformationProcess", FALSE, NtStatusHr(status'))

ReadProcessMemoryOk ==
    /\ pc = "ReadProcessMemory"
    /\ pebImageBase' = process.imageBase
    /\ pc' = "WriteRemoteProcessParameters"
    /\ UNCHANGED <<inputs, hr, status, imageEntryPointRva, replaceWithSize, bytesWritten,
                   targetExitCode, handles, guardArmed, ret, targetFile, secDirExt,
                   sectionImage, process, terminateCalls, writes>>
    /\ Step("ReadProcessMemory", TRUE, S_OK)

ReadProcessMemoryFail ==
    /\ pc = "ReadProcessMemory"
    /\ \E err \in Win32Errors : Return(LastErrorHr(err))
    /\ UNCHANGED <<inputs, locals, targetFile, secDirExt, sectionImage, writes>>
    /\ Step("ReadProcessMemory", FALSE, ret')

WriteRemoteProcessParametersOk ==
    /\ pc = "WriteRemoteProcessParameters"
    /\ hr' = S_OK
    /\ process' = [process EXCEPT !.params = TRUE]
    /\ pc' = "NtCreateThreadEx"
    /\ UNCHANGED <<inputs, status, imageEntryPointRva, replaceWithSize, bytesWritten,
                   pebImageBase, targetExitCode, handles, guardArmed, ret, targetFile,
                   secDirExt, sectionImage, terminateCalls, writes>>
    /\ Step("WriteRemoteProcessParameters", TRUE, S_OK)

\* The failed parameter write only logged: the missing RETURN_HR.
WriteRemoteProcessParametersFailIgnored ==
    /\ pc = "WriteRemoteProcessParameters"
    /\ \E e \in AnyFailures :
        /\ FAILED(e)
        /\ hr' = e
    /\ pc' = "NtCreateThreadEx"
    /\ UNCHANGED <<inputs, status, imageEntryPointRva, replaceWithSize, bytesWritten,
                   pebImageBase, targetExitCode, handles, guardArmed, ret, targetFile,
                   secDirExt, sectionImage, process, terminateCalls, writes>>
    /\ Step("WriteRemoteProcessParameters", FALSE, hr')

WriteRemoteProcessParametersFail ==
    /\ pc = "WriteRemoteProcessParameters"
    /\ \E e \in AnyFailures :
        /\ FAILED(e)
        /\ hr' = e
        /\ Return(e)
    /\ UNCHANGED <<inputs, status, imageEntryPointRva, replaceWithSize, bytesWritten,
                   pebImageBase, targetExitCode, targetFile, secDirExt, sectionImage,
                   writes>>
    /\ Step("WriteRemoteProcessParameters", FALSE, hr')

\* The entry point looked up again in the file as it is at thread creation.
NtCreateThreadExOkRvaFromDecoy ==
    /\ pc = "NtCreateThreadEx"
    /\ status' = 0
    /\ process' = [process EXCEPT !.state = "running",
                                  !.threadStart =
                                      Add2Ptr(pebImageBase,
                                              GetImageEntryPointRva(targetFile))]
    /\ Open("thread")
    /\ pc' = "ReleaseGuard"
    /\ UNCHANGED <<inputs, hr, imageEntryPointRva, replaceWithSize, bytesWritten,
                   pebImageBase, targetExitCode, guardArmed, ret, targetFile, secDirExt,
                   sectionImage, terminateCalls, writes>>
    /\ Step("NtCreateThreadEx", TRUE, S_OK)

\* The first thread starts at image base + entry RVA; the process runs.
NtCreateThreadExOk ==
    /\ pc = "NtCreateThreadEx"
    /\ status' = 0
    /\ process' = [process EXCEPT !.state = "running",
                                  !.threadStart = Add2Ptr(pebImageBase, imageEntryPointRva)]
    /\ Open("thread")
    /\ pc' = "ReleaseGuard"
    /\ UNCHANGED <<inputs, hr, imageEntryPointRva, replaceWithSize, bytesWritten,
                   pebImageBase, targetExitCode, guardArmed, ret, targetFile, secDirExt,
                   sectionImage, terminateCalls, writes>>
    /\ Step("NtCreateThreadEx", TRUE, S_OK)

NtCreateThreadExFail ==
    /\ pc = "NtCreateThreadEx"
    /\ \E s \in NtFailures :
        /\ ~NT_SUCCESS(s)
        /\ status' = s
        /\ Return(NtStatusHr(s))
    /\ UNCHANGED <<inputs, hr, imageEntryPointRva, replaceWithSize, bytesWritten,
                   pebImageBase, targetExitCode, targetFile, secDirExt, sectionImage,
                   writes>>
    /\ Step("NtCreateThreadEx", FALSE, NtStatusHr(status'))

\* The guard released at the top of the function instead of after the thread.
ReleaseGuardNever ==
    /\ pc = "ReleaseGuard"
    /\ guardArmed' = guardArmed
    /\ pc' = "ResetTarget"
    /\ UNCHANGED <<inputs, locals, handles, ret, targetFile, secDirExt, sectionImage,
                   process, terminateCalls, writes, trace>>

\* terminateProcess.release()
ReleaseGuard ==
    /\ pc = "ReleaseGuard"
    /\ guardArmed' = FALSE
    /\ pc' = "ResetTarget"
    /\ UNCHANGED <<inputs, locals, handles, ret, targetFile, secDirExt, sectionImage,
                   process, terminateCalls, writes, trace>>

(* ------------------------------------------------------------------ *)
(* Lifecycle: lines 358-389                                            *)
(* ------------------------------------------------------------------ *)
\* The reset done whatever HoldHandleExclusive says.
ResetTargetAlways ==
    /\ pc = "ResetTarget"
    /\ Close("target")
    /\ pc' = IF WaitForProcess THEN "WaitForSingleObject" ELSE "ReturnOk"
    /\ UNCHANGED <<inputs, locals, guardArmed, ret, targetFile, secDirExt, sectionImage,
                   process, terminateCalls, writes, trace>>

\* if (!HoldHandleExclusive) targetHandle.reset()
ResetTarget ==
    /\ pc = "ResetTarget"
    /\ IF ~HoldHandleExclusive THEN Close("target") ELSE handles' = handles
    /\ pc' = IF WaitForProcess THEN "WaitForSingleObject" ELSE "ReturnOk"
    /\ UNCHANGED <<inputs, locals, guardArmed, ret, targetFile, secDirExt, sectionImage,
                   process, terminateCalls, writes, trace>>

\* A wait that comes back while the process still runs.
WaitForSingleObjectNoBlock ==
    /\ pc = "WaitForSingleObject"
    /\ pc' = "GetExitCodeProcess"
    /\ UNCHANGED <<inputs, locals, handles, guardArmed, ret, targetFile, secDirExt,
                   sectionImage, process, terminateCalls, writes, trace>>

\* WaitForSingleObject(processHandle, INFINITE) returns once the process is gone.
WaitForSingleObject ==
    /\ pc = "WaitForSingleObject"
    /\ ~Live(process)
    /\ pc' = "GetExitCodeProcess"
    /\ UNCHANGED <<inputs, locals, handles, guardArmed, ret, targetFile, secDirExt,
                   sectionImage, process, terminateCalls, writes, trace>>

\* The exit code never fetched: targetExitCode keeps its initial 0.
GetExitCodeProcessSkipped ==
    /\ pc = "GetExitCodeProcess"
    /\ targetExitCode' = targetExitCode
    /\ pc' = "ReturnOk"
    /\ UNCHANGED <<inputs, hr, status, imageEntryPointRva, replaceWithSize, bytesWritten,
                   pebImageBase, handles, guardArmed, ret, targetFile, secDirExt,
                   sectionImage, process, terminateCalls, writes, trace>>

GetExitCodeProcess ==
    /\ pc = "GetExitCodeProcess"
    /\ targetExitCode' = process.exitCode
    /\ pc' = "ReturnOk"
    /\ UNCHANGED <<inputs, hr, status, imageEntryPointRva, replaceWithSize, bytesWritten,
                   pebImageBase, handles, guardArmed, ret, targetFile, secDirExt,
                   sectionImage, process, terminateCalls, writes, trace>>

\* return S_OK
ReturnOk ==
    /\ pc = "ReturnOk"
    /\ Return(S_OK)
    /\ UNCHANGED <<inputs, locals, targetFile, secDirExt, sectionImage, writes, trace>>

\* The target process, once it has a thread, exits when it likes.
ProcessExits ==
    /\ process.state = "running"
    /\ \E c \in ExitCodes :
        process' = [process EXCEPT !.state = "exited", !.exitCode = c]
    /\ UNCHANGED <<inputs, locals, pc, handles, guardArmed, ret, targetFile, secDirExt,
                   sectionImage, terminateCalls, writes, trace>>

(* ------------------------------------------------------------------ *)
(* Specification                                                       *)
(* ------------------------------------------------------------------ *)
Next ==
    \/ OpenSourceOk \/ OpenSourceFail
    \/ CreateTargetOk \/ CreateTargetFail
    \/ CopySourceOk \/ CopySourceFail
    \/ ResetSource
    \/ NtCreateSectionOk \/ NtCreateSectionFail
    \/ NtCreateProcessExOk \/ NtCreateProcessExFail
    \/ ResetSection
    \/ GetImageEntryPointRvaOk \/ GetImageEntryPointRvaFail
    \/ OpenReplaceWithOk \/ OpenReplaceWithFail
    \/ CopyReplaceWithOk \/ CopyReplaceWithFatal \/ CopyReplaceWithUserMapped
    \/ GetFileSizeOk \/ GetFileSizeFail
    \/ OverwriteFileAfterWithPatternOk \/ OverwriteFileAfterWithPatternFail
    \/ ExtendFileSecurityDirectoryOk \/ ExtendFileSecurityDirectoryFail
    \/ OverwriteFileContentsWithPatternOk \/ OverwriteFileContentsWithPatternFail
    \/ NtQueryInformationProcessOk \/ NtQueryInformationProcessFail
    \/ ReadProcessMemoryOk \/ ReadProcessMemoryFail
    \/ WriteRemoteProcessParametersOk \/ WriteRemoteProcessParametersFail
    \/ NtCreateThreadExOk \/ NtCreateThreadExFail
    \/ ReleaseGuard
    \/ ResetTarget
    \/ WaitForSingleObject
    \/ GetExitCodeProcess
    \/ ReturnOk
    \/ ProcessExits

Spec == Init /\ [][Next]_vars

\* The calling thread's own steps once the initial thread exists: it is
\* scheduled, so a step that stays possible is taken.
Lifecycle ==
    \/ ReleaseGuard
    \/ ResetTarget
    \/ WaitForSingleObject
    \/ GetExitCodeProcess
    \/ ReturnOk

FairSpec == Spec /\ WF_vars(Lifecycle)

(* ------------------------------------------------------------------ *)
(* History                                                             *)
(* ------------------------------------------------------------------ *)
Attempted(stage) == \E i \in DOMAIN trace : trace[i].stage = stage
Succeeded(stage) == \E i \in DOMAIN trace : trace[i].stage = stage /\ trace[i].ok
FailedStage(stage) == \E i \in DOMAIN trace : trace[i].stage = stage /\ ~trace[i].ok

Returned == pc = "done"
ThreadCreated == Succeeded("NtCreateThreadEx")

\* The replacement copy came back with the truncate-on-user-mapped-file code.
IsRace(e) == e.stage = "CopyReplaceWith" /\ ~e.ok /\ e.code = UserMappedFile
RaceHappened == \E i \in DOMAIN trace : IsRace(trace[i])

SubstituterStages ==
    {"CopyReplaceWith", "OverwriteFileAfterWithPattern", "ExtendFileSecurityDirectory",
     "OverwriteFileContentsWithPattern"}
FallbackSteps == {"OverwriteFileAfterWithPattern", "ExtendFileSecurityDirectory"}
BootstrapStages ==
    {"NtQueryInformationProcess", "ReadProcessMemory", "WriteRemoteProcessParameters",
     "NtCreateThreadEx"}
BootstrapSucceeded == \A st \in BootstrapStages : Succeeded(st)

\* The stages that can fail between process creation and thread creation.
StagesAfterProcess ==
    {"GetImageEntryPointRva", "OpenReplaceWith", "CopyReplaceWith", "GetFileSize",
     "OverwriteFileContentsWithPattern"} \cup BootstrapStages

(* ------------------------------------------------------------------ *)
(* Claims                                                              *)
(* ------------------------------------------------------------------ *)

\* C1: a failure of any stage between process creation and thread creation
\* (the user-mapped-file outcome of the replacement copy apart) makes
\* ExecuteProcess return a failure value with the process terminated and the
\* process handle closed; no failed return leaves a live process.
C1_FailureTerminatesProcess ==
    /\ \A i \in DOMAIN trace :
        (trace[i].stage \in StagesAfterProcess /\ ~trace[i].ok /\ ~IsRace(trace[i]))
            => /\ Returned
               /\ FAILED(ret)
               /\ process.state = "terminated"
               /\ handles["process"] = "closed"
    /\ (Returned /\ FAILED(ret)) => ~Live(process)

C1_Witness ==
    /\ Returned
    /\ FailedStage("NtCreateThreadEx")
    /\ process.state = "terminated"
    /\ process.params
    /\ terminateCalls = <<"created">>

\* C2: TerminateProcess is only ever invoked on a process without a thread,
\* never once the thread was created, and the guard is armed in every state
\* of the running function in which NtCreateThreadEx has not succeeded.
C2_GuardDisarmedOnlyAfterThread ==
    /\ \A i \in DOMAIN terminateCalls : terminateCalls[i] = "created"
    /\ ThreadCreated => terminateCalls = <<>>
    /\ (~Returned /\ ~ThreadCreated) => guardArmed

C2_Witness ==
    /\ Returned
    /\ ThreadCreated
    /\ ~guardArmed
    /\ terminateCalls = <<>>
    /\ process.state = "running"

\* C3: when the image section is created the target file holds exactly the
\* source's bytes: the source copy has succeeded and no Content Substituter
\* write has happened; the section captures those bytes.
C3_SectionFromTrueBytes ==
    /\ pc = "NtCreateSection"
        => /\ targetFile = TargetBinary
           /\ Succeeded("CopySource")
           /\ writes = <<>>
           /\ \A i \in DOMAIN trace : trace[i].stage \notin SubstituterStages
    /\ pc = "NtCreateProcessEx"
        => /\ sectionImage = TargetBinary
           /\ targetFile = TargetBinary
           /\ writes = <<>>
    /\ Succeeded("NtCreateSection") => sectionImage = TargetBinary

C3_Witness ==
    /\ pc = "NtCreateProcessEx"
    /\ Succeeded("NtCreateSection")
    /\ Len(TargetBinary) = MaxLen
    /\ sectionImage = TargetBinary

\* C4: every Content Substituter write to the target file is made while the
\* process object exists, threadless and not terminated, and its handle is open.
C4_WritesOnlyWithProcess ==
    /\ \A i \in DOMAIN writes : writes[i].proc = "created"
    /\ \A i \in DOMAIN trace :
        trace[i].stage \in SubstituterStages => Succeeded("NtCreateProcessEx")
    /\ pc \in SubstituterStages => (process.state = "created" /\ IsValid("process"))

C4_Witness ==
    /\ Len(writes) = 3
    /\ writes[3].op = "ExtendFileSecurityDirectory"
    /\ writes[3].proc = "created"
    /\ targetFile # TargetBinary

\* Position of the successful thread creation in the trace (0 when there is none).
ThreadAt ==
    IF ThreadCreated
    THEN CHOOSE i \in DOMAIN trace : trace[i].stage = "NtCreateThreadEx" /\ trace[i].ok
    ELSE 0

\* The Content Substituter has run to its end: the replacement copy or the full
\* overwrite succeeded, or the fix-up after the race ended with or without a
\* failure of one of its two steps.
SubstitutionFinishedBefore(n) ==
    \E j \in 1..(n - 1) :
        \/ trace[j].stage \in {"CopyReplaceWith", "OverwriteFileContentsWithPattern"}
           /\ trace[j].ok
        \/ trace[j].stage = "OverwriteFileAfterWithPattern" /\ ~trace[j].ok
        \/ trace[j].stage = "ExtendFileSecurityDirectory"

\* C5: the initial thread is created only after the parameters were written
\* successfully and after the Content Substituter has finished, and no
\* Content Substituter write follows thread creation.
C5_ThreadAfterParamsAndSubstitution ==
    ThreadCreated =>
        /\ process.params
        /\ \E j \in 1..(ThreadAt - 1) :
             trace[j].stage = "WriteRemoteProcessParameters" /\ trace[j].ok
        /\ SubstitutionFinishedBefore(ThreadAt)
        /\ \A j \in DOMAIN trace :
             trace[j].stage \in SubstituterStages => j < ThreadAt
        /\ \A i \in DOMAIN writes : writes[i].proc = "created"
        /\ pc \notin SubstituterStages

C5_Witness ==
    /\ ThreadCreated
    /\ RaceHappened
    /\ FailedStage("ExtendFileSecurityDirectory")
    /\ process.params
    /\ process.state = "running"

\* C6: the image mapped into the target process is the source's bytes from
\* process creation on, and so when the thread is created and afterwards,
\* whatever the Content Substituter has written to the target file.
C6_MappedImageIsSource ==
    /\ process.state # "none" => process.image = TargetBinary
    /\ ThreadCreated => process.image = TargetBinary

C6_Witness ==
    /\ ThreadCreated
    /\ process.state = "running"
    /\ process.image = TargetBinary
    /\ targetFile # TargetBinary
    /\ Len(targetFile) > Len(TargetBinary)

LastStep == trace[Len(trace)]

\* C7 as stated: once the replacement copy has failed with the user-mapped-file
\* code, no return happens before the bootstrap is entered, and a successful
\* bootstrap returns S_OK.
C7_Original_RaceNeverFatal ==
    (RaceHappened /\ Returned) =>
        /\ Attempted("NtQueryInformationProcess")
        /\ BootstrapSucceeded => ret = S_OK

\* C7, amended: after the user-mapped-file failure the only return made from
\* the fix-up path is the one for a failed replacement size query, which
\* returns that failure with the process terminated; the copy's own failure
\* and a failure of the tail overwrite or of the security-directory extension
\* never make the function return, the bootstrap is entered, and a successful
\* bootstrap returns S_OK.
C7_RaceFatalOnlyOnSizeQuery ==
    RaceHappened =>
        /\ FailedStage("GetFileSize")
            => /\ Returned
               /\ LastStep.stage = "GetFileSize"
               /\ ret = LastStep.code
               /\ FAILED(ret)
               /\ process.state = "terminated"
               /\ ~Attempted("NtQueryInformationProcess")
        /\ (Returned /\ ~FailedStage("GetFileSize"))
            => /\ Attempted("NtQueryInformationProcess")
               /\ BootstrapSucceeded => ret = S_OK
        /\ (Returned /\ FAILED(ret))
            => /\ ~LastStep.ok
               /\ LastStep.stage \in {"GetFileSize"} \cup BootstrapStages
               /\ ret = LastStep.code

C7_Witness ==
    /\ RaceHappened
    /\ Returned
    /\ FailedStage("OverwriteFileAfterWithPattern")
    /\ BootstrapSucceeded
    /\ ret = S_OK

\* C8 as stated: after a failed tail overwrite or a failed security-directory
\* extension the process is not terminated, the parameters are written, the
\* thread is created, and the returned value is not the step's failure code.
C8_Original_FallbackFailureThenThread ==
    \A i \in DOMAIN trace :
        (trace[i].stage \in FallbackSteps /\ ~trace[i].ok /\ Returned)
            => /\ process.state # "terminated"
               /\ process.params
               /\ ThreadCreated
               /\ ret # trace[i].code

\* C8, amended: a failed tail overwrite or security-directory extension never
\* makes the function return or terminate the process at that step: the
\* process-info query comes next. When the four bootstrap stages then succeed
\* the parameters are written, the thread is created, the process is not
\* terminated by the pipeline and S_OK is returned, not the step's failure
\* code; a failure returned afterwards is the failure of a bootstrap stage.
C8_FallbackFailureNotFatal ==
    \A i \in DOMAIN trace :
        (trace[i].stage \in FallbackSteps /\ ~trace[i].ok)
            => /\ i = Len(trace)
                   => /\ pc = "NtQueryInformationProcess"
                      /\ process.state = "created"
                      /\ terminateCalls = <<>>
               /\ i < Len(trace) => trace[i + 1].stage = "NtQueryInformationProcess"
               /\ (Returned /\ BootstrapSucceeded)
                   => /\ process.params
                      /\ ThreadCreated
                      /\ terminateCalls = <<>>
                      /\ ret = S_OK
                      /\ ret # trace[i].code
               /\ (Returned /\ FAILED(ret))
                   => /\ LastStep.stage \in BootstrapStages
                      /\ ~LastStep.ok
                      /\ ret = LastStep.code

C8_Witness ==
    /\ Returned
    /\ FailedStage("ExtendFileSecurityDirectory")
    /\ ThreadCreated
    /\ process.params
    /\ ret = S_OK
    /\ hr = S_OK

\* C9: a replacement copy that fails with anything but the user-mapped-file
\* code makes ExecuteProcess return that code at once: no fix-up step is
\* attempted, no thread is created and the process is terminated.
C9_OtherCopyFailureFatal ==
    \A i \in DOMAIN trace :
        (trace[i].stage = "CopyReplaceWith" /\ ~trace[i].ok /\ ~IsRace(trace[i]))
            => /\ i = Len(trace)
               /\ Returned
               /\ ret = trace[i].code
               /\ FAILED(ret)
               /\ ~Attempted("GetFileSize")
               /\ \A st \in FallbackSteps : ~Attempted(st)
               /\ Len(writes) = 1
               /\ ~ThreadCreated
               /\ process.state = "terminated"
               /\ process.threadStart = 0

C9_Witness ==
    /\ Returned
    /\ LastStep.stage = "CopyReplaceWith"
    /\ ~LastStep.ok
    /\ ret = LastStep.code
    /\ ret # UserMappedFile
    /\ process.state = "terminated"

\* C10: without a replacement, a failed full-file pattern overwrite makes
\* ExecuteProcess return that failure at once: no thread is created, the
\* process is terminated, and nothing of the fix-up path is attempted.
C10_PatternFailureFatal ==
    \A i \in DOMAIN trace :
        (trace[i].stage = "OverwriteFileContentsWithPattern" /\ ~trace[i].ok)
            => /\ ~ReplaceWith.has
               /\ i = Len(trace)
               /\ Returned
               /\ ret = trace[i].code
               /\ FAILED(ret)
               /\ ~ThreadCreated
               /\ process.state = "terminated"
               /\ ~Attempted("GetFileSize")
               /\ \A st \in FallbackSteps : ~Attempted(st)

C10_Witness ==
    /\ Returned
    /\ ~ReplaceWith.has
    /\ LastStep.stage = "OverwriteFileContentsWithPattern"
    /\ ~LastStep.ok
    /\ ret = LastStep.code
    /\ process.state = "terminated"
    /\ targetFile # TargetBinary

\* The statements after the guard's release.
AfterRelease == {"ResetTarget", "WaitForSingleObject", "GetExitCodeProcess", "ReturnOk"}

\* C11 as stated: with HoldHandleExclusive the target file handle is open for
\* as long as the started process has not exited, whatever WaitForProcess is;
\* without it the handle is closed before any wait.
C11_Original_HandleHeldUntilExit ==
    /\ (HoldHandleExclusive /\ ThreadCreated /\ process.state = "running")
        => IsValid("target")
    /\ (~HoldHandleExclusive /\ pc \in (AfterRelease \ {"ResetTarget"}))
        => ~IsValid("target")

\* C11, amended: with HoldHandleExclusive the target file handle stays open
\* until ExecuteProcess returns and is closed by that return; with
\* WaitForProcess the return comes after the process has ended, so the handle
\* outlives the process, and without WaitForProcess the handle is closed at
\* the return whether or not the process still runs. Without
\* HoldHandleExclusive the handle is closed right after the guard's release,
\* before any wait.
C11_HandleHeldUntilReturn ==
    /\ (HoldHandleExclusive /\ ThreadCreated /\ ~Returned) => IsValid("target")
    /\ (HoldHandleExclusive /\ WaitForProcess /\ ThreadCreated /\ Live(process))
        => IsValid("target")
    /\ (ThreadCreated /\ Returned) => handles["target"] = "closed"
    /\ (~HoldHandleExclusive /\ pc \in {"ReleaseGuard", "ResetTarget"}) => IsValid("target")
    /\ (~HoldHandleExclusive /\ pc \in (AfterRelease \ {"ResetTarget"}))
        => handles["target"] = "closed"

C11_Witness ==
    /\ HoldHandleExclusive
    /\ WaitForProcess
    /\ pc = "ReturnOk"
    /\ process.state = "exited"
    /\ IsValid("target")

\* C12 as stated: after a wait the value ExecuteProcess returns is the exit
\* code of the target process.
C12_Original_ReturnsExitCode ==
    (Returned /\ WaitForProcess /\ ThreadCreated) => ret = process.exitCode

\* C12, amended: after a wait the exit code ExecuteProcess fetches and logs
\* (targetExitCode) is the code the target process ended with, and the value
\* it returns is S_OK whatever that code is.
C12_FetchedExitCodeIsProcessExitCode ==
    (WaitForProcess /\ ThreadCreated /\ pc \in {"ReturnOk", "done"})
        => /\ process.state = "exited"
           /\ process.exitCode \in ExitCodes
           /\ targetExitCode = process.exitCode
           /\ Returned => ret = S_OK

C12_Witness ==
    /\ Returned
    /\ WaitForProcess
    /\ ThreadCreated
    /\ process.exitCode = 3
    /\ targetExitCode = 3
    /\ ret = S_OK

ReturnedOk == Returned /\ ret = S_OK

ReplacementSmaller == ReplaceWith.has /\ Len(ReplaceWith.bytes) < Len(TargetBinary)

\* Bytes of the original left beyond the replacement's length.
TailLength == Len(TargetBinary) - Len(ReplaceWith.bytes)

\* The replacement followed by the pattern up to the original length.
ReplacementThenPattern == ReplaceWith.bytes \o Tile(Pattern, TailLength)

\* C13 as stated: with a replacement smaller than the original, every
\* successful return leaves the replacement's bytes followed by a pattern
\* tail up to the original length, and the security directory extended by the
\* tail's length.
C13_Original_SmallerReplacementFinalBytes ==
    (ReplacementSmaller /\ ReturnedOk)
        => /\ targetFile = ReplacementThenPattern
           /\ Len(targetFile) >= Len(TargetBinary)
           /\ secDirExt = TailLength

\* C13, amended: with a replacement smaller than the original, every
\* successful return leaves a file of the original length that starts with
\* the replacement's bytes; the tail is the pattern when the tail overwrite
\* succeeded, and the security directory is extended by the tail's length
\* when the extension succeeded too. A failed fix-up step leaves the tail, or
\* the directory, as it was.
C13_SmallerReplacementFinalBytes ==
    (ReplacementSmaller /\ ReturnedOk)
        => /\ RaceHappened
           /\ Len(targetFile) = Len(TargetBinary)
           /\ SubSeq(targetFile, 1, Len(ReplaceWith.bytes)) = ReplaceWith.bytes
           /\ Succeeded("OverwriteFileAfterWithPattern")
               => /\ targetFile = ReplacementThenPattern
                  /\ bytesWritten = TailLength
           /\ Succeeded("ExtendFileSecurityDirectory") => secDirExt = TailLength
           /\ ~Succeeded("ExtendFileSecurityDirectory") => secDirExt = 0

C13_Witness ==
    /\ ReplacementSmaller
    /\ ReturnedOk
    /\ Succeeded("ExtendFileSecurityDirectory")
    /\ TailLength = 2
    /\ targetFile = ReplacementThenPattern
    /\ targetFile # TargetBinary
    /\ secDirExt = 2

\* C14: without a replacement, whenever the thread has been created the
\* target file is the pattern tiled over the original length, the length
\* being that of the copied source.
C14_PatternTiledOverOriginalLength ==
    (~ReplaceWith.has /\ ThreadCreated)
        => /\ Len(targetFile) = Len(TargetBinary)
           /\ \A i \in 1..Len(targetFile) :
                targetFile[i] = Pattern[((i - 1) % Len(Pattern)) + 1]
           /\ secDirExt = 0

C14_Witness ==
    /\ ~ReplaceWith.has
    /\ ThreadCreated
    /\ Returned
    /\ Len(Pattern) = 2
    /\ Pattern[1] # Pattern[2]
    /\ Len(targetFile) = 2
    /\ targetFile = Pattern
    /\ targetFile # TargetBinary

\* C15: with a replacement at least as long as the original, every successful
\* return leaves exactly the replacement's bytes in the target file, and
\* neither the tail overwrite nor the security-directory extension was run.
C15_LargerReplacementFinalBytes ==
    (ReplaceWith.has /\ Len(ReplaceWith.bytes) >= Len(TargetBinary) /\ ReturnedOk)
        => /\ targetFile = ReplaceWith.bytes
           /\ Succeeded("CopyReplaceWith")
           /\ \A st \in FallbackSteps : ~Attempted(st)
           /\ ~Attempted("GetFileSize")
           /\ secDirExt = 0
           /\ Len(writes) = 1

C15_Witness ==
    /\ ReplaceWith.has
    /\ Len(ReplaceWith.bytes) > Len(TargetBinary)
    /\ ReturnedOk
    /\ targetFile = ReplaceWith.bytes
    /\ process.image = TargetBinary
    /\ process.state = "running"

\* A stage failure that ends the pipeline: every failure but the race outcome
\* of the replacement copy and the two fix-up steps' failures.
IsFatal(e) == ~e.ok /\ e.stage \notin FallbackSteps /\ ~IsRace(e)

\* The values the three return macros can hand back for the state's locals.
ReturnCodes ==
    {hr, NtStatusHr(status)} \cup {LastErrorHr(err) : err \in Win32Errors}

C17_WaitStates ==
    /\ (ThreadCreated /\ ~WaitForProcess)
        => /\ pc \notin {"WaitForSingleObject", "GetExitCodeProcess"}
           /\ process.state \in {"running", "exited"}
           /\ terminateCalls = <<>>
           /\ targetExitCode = 0
    /\ (ThreadCreated /\ WaitForProcess /\ Returned)
        => /\ process.state = "exited"
           /\ terminateCalls = <<>>
    /\ (ThreadCreated /\ WaitForProcess /\ Live(process))
        => pc \in {"ReleaseGuard", "ResetTarget", "WaitForSingleObject"}
    /\ (ThreadCreated /\ ~Returned)
        => ((ENABLED Lifecycle) <=> ~(pc = "WaitForSingleObject" /\ Live(process)))

\* C17: after a successful bootstrap, without the wait ExecuteProcess returns
\* whatever the process does and leaves it not terminated; with the wait it
\* has not returned while the process runs, it returns once the process has
\* exited, and while the process keeps running it stays in the wait.
C17_WaitForExit ==
    /\ []C17_WaitStates
    /\ (ThreadCreated /\ (WaitForProcess => process.state = "exited")) ~> Returned
    /\ [][(pc = "WaitForSingleObject" /\ Live(process') /\ pc' # pc) => FALSE]_vars

C17_Witness ==
    /\ ThreadCreated
    /\ ~WaitForProcess
    /\ Returned
    /\ process.state = "running"
    /\ ret = S_OK

\* C18: the section handle is open only between the section's creation and
\* the reset that follows process creation; it is closed before the entry RVA
\* is resolved and before any write of the Content Substituter, and no
\* return, that of a failed process creation included, leaves it open.
C18_SectionHandleScope ==
    /\ IsValid("section") => pc \in {"NtCreateProcessEx", "ResetSection"}
    /\ pc \in {"NtCreateProcessEx", "ResetSection"} => IsValid("section")
    /\ (Attempted("GetImageEntryPointRva") \/ pc = "GetImageEntryPointRva")
        => handles["section"] = "closed"
    /\ writes # <<>> => handles["section"] = "closed"
    /\ Returned => ~IsValid("section")
    /\ FailedStage("NtCreateProcessEx") => handles["section"] = "closed"
    /\ FailedStage("NtCreateSection") => handles["section"] = "null"

C18_Witness ==
    /\ Returned
    /\ FailedStage("NtCreateProcessEx")
    /\ handles["section"] = "closed"
    /\ process.state = "none"

\* The entry RVA of the bytes the process was made from.
TrueEntryPointRva == GetImageEntryPointRva(TargetBinary)

\* C19: the entry RVA is resolved with the process constructed and the target
\* file still holding the source's bytes, nothing of the Content Substituter
\* written yet; the thread starts at the image base read from the PEB plus
\* that RVA, whatever the file holds by then.
C19_EntryPointFromTrueBytes ==
    /\ pc = "GetImageEntryPointRva"
        => /\ targetFile = TargetBinary
           /\ writes = <<>>
           /\ process.state = "created"
           /\ Succeeded("NtCreateProcessEx")
    /\ Succeeded("GetImageEntryPointRva") => imageEntryPointRva = TrueEntryPointRva
    /\ Succeeded("ReadProcessMemory") => pebImageBase = process.imageBase
    /\ ThreadCreated
        => /\ process.threadStart = Add2Ptr(pebImageBase, imageEntryPointRva)
           /\ process.threadStart = Add2Ptr(process.imageBase, TrueEntryPointRva)
           /\ process.imageBase = ImageBaseOf(TargetBinary)

C19_Witness ==
    /\ ThreadCreated
    /\ GetImageEntryPointRva(targetFile) # TrueEntryPointRva
    /\ process.threadStart = Add2Ptr(process.imageBase, TrueEntryPointRva)
    /\ process.threadStart # Add2Ptr(process.imageBase, GetImageEntryPointRva(targetFile))

\* Where in the trace the stage succeeded; 0 when it did not.
SucceededAt(stage) ==
    IF Succeeded(stage)
    THEN CHOOSE i \in DOMAIN trace : trace[i].stage = stage /\ trace[i].ok
    ELSE 0

\* The stages every successful run passes, in the order of the code.
MainStages ==
    <<"OpenSource", "CreateTarget", "CopySource", "NtCreateSection",
      "NtCreateProcessEx", "GetImageEntryPointRva", "NtQueryInformationProcess",
      "ReadProcessMemory", "WriteRemoteProcessParameters", "NtCreateThreadEx">>

\* C20: a return of S_OK has passed every main stage in the code's order, the
\* content substitution begun after the entry RVA was resolved and finished
\* before the process-info query, thread creation last; and once a stage has
\* failed fatally the value returned is a failure.
C20_SuccessOnlyWithThread ==
    /\ ReturnedOk
        => /\ ThreadCreated
           /\ \A k \in DOMAIN MainStages : Succeeded(MainStages[k])
           /\ \A k \in 1..(Len(MainStages) - 1) :
                SucceededAt(MainStages[k]) < SucceededAt(MainStages[k + 1])
           /\ SubstitutionFinishedBefore(SucceededAt("NtQueryInformationProcess"))
           /\ \A i \in DOMAIN trace :
                trace[i].stage \in SubstituterStages
                    => /\ SucceededAt("GetImageEntryPointRva") < i
                       /\ i < SucceededAt("NtQueryInformationProcess")
           /\ \A i \in DOMAIN trace : ~IsFatal(trace[i])
    /\ (\E i \in DOMAIN trace : IsFatal(trace[i])) => (Returned /\ FAILED(ret))
    /\ ~Returned => ret = S_OK

C20_Witness ==
    /\ ReturnedOk
    /\ ThreadCreated
    /\ RaceHappened
    /\ FailedStage("ExtendFileSecurityDirectory")
    /\ Len(trace) = 15

====
